---- MODULE Spec2Model ----
(***************************************************************************)
(* FRIDAY offline assistant: the voice-command and conversation-state      *)
(* engine (friday_core.py, class FridayCore) together with the threads of  *)
(* the desktop application that drive it (friday_app.py, class FridayApp). *)
(*                                                                         *)
(* Text is modelled as TLA+ strings, one character at a time; a JSON value *)
(* is a record [k, s, m]; the conversation buffer is a sequence of such    *)
(* values, kept to max_context_length entries as deque(maxlen=...) does.   *)
(***************************************************************************)
EXTENDS Integers, Sequences, FiniteSets, TLC

VARIABLES
    conversation_history,   \* FridayCore.conversation_history (deque)
    privacy_mode,           \* FridayCore.privacy_mode
    should_stop,            \* FridayCore.should_stop
    is_listening,           \* FridayCore.is_listening
    audio_queue,            \* FridayCore.audio_queue (queue.Queue)
    voice_active,           \* FridayApp.voice_active
    tasks,                  \* message threads waiting in requests.post
    listeners,              \* threads running FridayCore.listen
    producers,              \* threads running FridayCore._listen_thread
    pending,                \* toggle_voice callbacks scheduled with root.after
    privacy_shown,          \* whether FridayApp.privacy_button reads "Privacy: ON"
    chat_history,           \* optimi_fridayapp FridayApp.chat_history
    chat_display,           \* optimi_fridayapp FridayApp.chat_display, as message blocks
    status,                 \* optimi_fridayapp FridayApp.status_label text
    scheduled,              \* optimi_fridayapp callbacks given to root.after
    disk,                   \* the session file written by save_conversation
    last,                   \* history variable: what the last operation did
    log,                    \* history variable: messages appended since the last clear
    ops,                    \* operations started so far
    twin                    \* a second run of the engine, fed the same inputs

vars == <<conversation_history, privacy_mode, should_stop, is_listening,
          audio_queue, voice_active, tasks, listeners, producers, pending,
          privacy_shown, chat_history, chat_display, status, scheduled,
          disk, last, log, ops, twin>>

\* the state of the window of optimi_fridayapp
window == <<chat_history, chat_display, status, scheduled>>

-----------------------------------------------------------------------------
(* Bounds of the model *)

\* capacity handed to FridayCore(max_context_length=...)
max_context_length == 2

\* operations started in one behaviour
MaxOps == 3

\* message threads waiting for the inference request at the same time
MaxTasks == 1

\* listen loops alive at the same time
MaxListeners == 2

\* audio units waiting in the queue
MaxQueue == 2

-----------------------------------------------------------------------------
(* Python str operations *)

Char(s, i) == SubSeq(s, i, i)

\* s[i-1:].startswith(pat)
StartsAt(s, pat, i) ==
    /\ i + Len(pat) - 1 <= Len(s)
    /\ SubSeq(s, i, i + Len(pat) - 1) = pat

\* pat in s
Contains(pat, s) == \E i \in 1..(Len(s) - Len(pat) + 1) : StartsAt(s, pat, i)

\* s.find(pat) + 1, and 0 when pat is not in s
Find(s, pat) ==
    IF Contains(pat, s)
    THEN CHOOSE i \in 1..(Len(s) + 1) :
            /\ StartsAt(s, pat, i)
            /\ \A j \in 1..(i - 1) : ~StartsAt(s, pat, j)
    ELSE 0

RECURSIVE str_replace(_, _)
\* s.replace(pat, ""): every non-overlapping occurrence, left to right
str_replace(s, pat) ==
    IF Len(s) = 0 THEN ""
    ELSE IF StartsAt(s, pat, 1)
         THEN str_replace(SubSeq(s, Len(pat) + 1, Len(s)), pat)
         ELSE Char(s, 1) \o str_replace(Tail(s), pat)

\* s.replace(pat, "", 1): the first occurrence only
str_replace_first(s, pat) ==
    LET i == Find(s, pat)
    IN  IF i = 0 THEN s
        ELSE SubSeq(s, 1, i - 1) \o SubSeq(s, i + Len(pat), Len(s))

IsSpace(c) == c \in {" ", "\t", "\n"}

RECURSIVE lstrip(_)
lstrip(s) ==
    IF Len(s) > 0 /\ IsSpace(Char(s, 1)) THEN lstrip(Tail(s)) ELSE s

RECURSIVE rstrip(_)
rstrip(s) ==
    IF Len(s) > 0 /\ IsSpace(Char(s, Len(s)))
    THEN rstrip(SubSeq(s, 1, Len(s) - 1))
    ELSE s

\* s.strip()
strip(s) == rstrip(lstrip(s))

UpperCase == "ABCDEFGHIJKLMNOPQRSTUVWXYZ"
LowerCase == "abcdefghijklmnopqrstuvwxyz"

\* the lower-case letter for each upper-case one
LowerOf ==
    [c \in {Char(UpperCase, i) : i \in 1..Len(UpperCase)} |->
        Char(LowerCase, CHOOSE i \in 1..Len(UpperCase) : Char(UpperCase, i) = c)]

lower_char(c) == IF c \in DOMAIN LowerOf THEN LowerOf[c] ELSE c

RECURSIVE lower(_)
\* s.lower()
lower(s) ==
    IF Len(s) = 0 THEN ""
    ELSE IF Len(s) = 1 THEN lower_char(s)
    ELSE LET h == Len(s) \div 2
         IN  lower(SubSeq(s, 1, h)) \o lower(SubSeq(s, h + 1, Len(s)))

-----------------------------------------------------------------------------
(* JSON values: what json.load returns and what the buffer holds *)

JStr(s) == [k |-> "str", s |-> s, m |-> <<>>]
JNum(s) == [k |-> "num", s |-> s, m |-> <<>>]
JNull == [k |-> "null", s |-> "", m |-> <<>>]
\* members: a sequence of [key, val] in insertion order
JObj(members) == [k |-> "obj", s |-> "", m |-> members]
\* elems: a sequence of values
JArr(elems) ==
    [k |-> "arr", s |-> "", m |-> [i \in 1..Len(elems) |-> [key |-> "", val |-> elems[i]]]]

Elems(v) == [i \in 1..Len(v.m) |-> v.m[i].val]

\* key in message, for a dict; False otherwise
HasKey(v, key) == v.k = "obj" /\ \E i \in 1..Len(v.m) : v.m[i].key = key

\* message[key]
GetKey(v, key) == v.m[CHOOSE i \in 1..Len(v.m) : v.m[i].key = key].val

\* {"role": role, "content": content}
Message(role, content) ==
    JObj(<<[key |-> "role", val |-> JStr(role)],
           [key |-> "content", val |-> JStr(content)]>>)

\* message["role"] and message["content"] both evaluate without raising
Subscriptable(v) == HasKey(v, "role") /\ HasKey(v, "content")

\* f"{value}" for the values a session file can put in a content field
format_value(v) ==
    CASE v.k = "str" -> v.s
      [] v.k = "num" -> v.s
      [] v.k = "null" -> "None"
      [] v.k = "arr" /\ v.m = <<>> -> "[]"
      [] v.k = "obj" /\ v.m = <<>> -> "{}"
      [] OTHER -> "<" \o v.k \o ">"

-----------------------------------------------------------------------------
(* The conversation buffer: deque(maxlen=max_context_length) *)

\* the variant that evicts the newest entry instead of the oldest
deque_append_drop_newest(d, x) ==
    IF Len(d) >= max_context_length THEN d ELSE Append(d, x)

\* deque.append(x): when full, the entry at the left end is discarded
deque_append(d, x) ==
    LET a == Append(d, x)
    IN  IF Len(a) > max_context_length THEN Tail(a) ELSE a

\* the variant that stops taking messages once the buffer is full
deque_extend_oldest(d, xs) ==
    LET a == d \o xs
    IN  IF Len(a) > max_context_length THEN SubSeq(a, 1, max_context_length) ELSE a

RECURSIVE deque_extend(_, _)
\* for message in xs: deque.append(message)
deque_extend(d, xs) ==
    IF xs = <<>> THEN d ELSE deque_extend(deque_append(d, Head(xs)), Tail(xs))

\* the last n entries of a sequence (all of it when it is shorter)
LastN(xs, n) ==
    IF Len(xs) <= n THEN xs ELSE SubSeq(xs, Len(xs) - n + 1, Len(xs))

-----------------------------------------------------------------------------
(* FridayCore.__init__ and initialize_commands *)

name == "FRIDAY"

wake_word == lower("friday")

\* self.commands, in insertion order
commands ==
    << [cmd |-> "tell me a story",  func |-> "tell_story"],
       [cmd |-> "what time is it",  func |-> "tell_time"],
       [cmd |-> "what's the time",  func |-> "tell_time"],
       [cmd |-> "current time",     func |-> "tell_time"],
       [cmd |-> "privacy shield",   func |-> "toggle_privacy"],
       [cmd |-> "privacy mode",     func |-> "toggle_privacy"],
       [cmd |-> "stop listening",   func |-> "stop_listening"],
       [cmd |-> "goodbye",          func |-> "stop_listening"],
       [cmd |-> "exit",             func |-> "stop_listening"],
       [cmd |-> "help",             func |-> "show_help"] >>

\* the wake patterns of _process_audio, in the order they are tested
wake_patterns ==
    << "hey " \o wake_word, "ok " \o wake_word, "okay " \o wake_word,
       "hi " \o wake_word, wake_word >>

-----------------------------------------------------------------------------
(* Output boundary: FridayCore.speak *)

\* the variant without the privacy check
speak_ungated(privacy, text) == [text |-> text, privacy |-> privacy, engine |-> TRUE]

\* speak(text): one call, with the privacy flag it read and whether it reached
\* engine.say / engine.runAndWait
speak(privacy, text) == [text |-> text, privacy |-> privacy, engine |-> ~privacy]

-----------------------------------------------------------------------------
(* Wake-word detection: the second half of _process_audio *)

\* any(pattern in text for pattern in wake_patterns)
has_wake(text) == \E i \in 1..Len(wake_patterns) : Contains(wake_patterns[i], text)

\* the pattern at which the for loop breaks
first_pattern(text) ==
    wake_patterns[CHOOSE i \in 1..Len(wake_patterns) :
                    /\ Contains(wake_patterns[i], text)
                    /\ \A j \in 1..(i - 1) : ~Contains(wake_patterns[j], text)]

\* command = text.replace(pattern, "").strip()
extract_command(text) == strip(str_replace(text, first_pattern(text)))

-----------------------------------------------------------------------------
(* Command routing: the for loop over self.commands.items() *)

Matches(command) == {i \in 1..Len(commands) : Contains(commands[i].cmd, command)}

\* the variant that prefers the longest matching trigger
first_match_longest(command) ==
    LET M == Matches(command)
    IN  IF M = {} THEN 0
        ELSE CHOOSE i \in M :
                \A j \in M :
                    \/ Len(commands[j].cmd) < Len(commands[i].cmd)
                    \/ (Len(commands[j].cmd) = Len(commands[i].cmd) /\ i <= j)

\* index of the entry whose handler runs, 0 when the loop falls through
first_match(command) ==
    LET M == Matches(command)
    IN  IF M = {} THEN 0 ELSE CHOOSE i \in M : \A j \in M : i <= j

\* what the loop did: the entry it stopped at and how many entries it tested
route(command) ==
    LET i == first_match(command)
    IN  [matched |-> i # 0,
         trig    |-> IF i = 0 THEN "" ELSE commands[i].cmd,
         func    |-> IF i = 0 THEN "" ELSE commands[i].func,
         checked |-> IF i = 0 THEN Len(commands) ELSE i]

-----------------------------------------------------------------------------
(* LLM bridge: FridayCore.query_llm *)

ReplyNoField == "I'm sorry, I couldn't process that request."
ReplyBadStatus == "I'm having trouble connecting to my brain right now."
ReplyUnavailable == "I'm having trouble connecting to my language model. Is Ollama running?"
ReplyUnexpected == "I encountered an unexpected error. Please try again."

role_prefix(message) ==
    IF GetKey(message, "role") = JStr("user") THEN "User: " ELSE name \o ": "

RECURSIVE render_newest_first(_)
\* the variant that walks the buffer from its newest entry
render_newest_first(history) ==
    IF history = <<>> THEN ""
    ELSE render_newest_first(Tail(history))
            \o role_prefix(Head(history))
            \o format_value(GetKey(Head(history), "content")) \o "\n"

RECURSIVE render(_)
\* one line per buffered message, in insertion order
render(history) ==
    IF history = <<>> THEN ""
    ELSE role_prefix(Head(history))
            \o format_value(GetKey(Head(history), "content")) \o "\n"
            \o render(Tail(history))

\* the variant that adds the final line whatever the buffer holds
prompt_absent_always(history, prompt) == TRUE

\* not any(message["content"] == prompt and message["role"] == "user" ...)
prompt_absent(history, prompt) ==
    ~\E i \in 1..Len(history) :
        /\ GetKey(history[i], "content") = JStr(prompt)
        /\ GetKey(history[i], "role") = JStr("user")

\* the context string, or the exception raised while building it (a buffered
\* entry that is no dict or lacks a key)
build_context(history, prompt) ==
    IF \E i \in 1..Len(history) : ~Subscriptable(history[i])
    THEN [raised |-> TRUE, context |-> "", seen |-> history]
    ELSE [raised |-> FALSE, seen |-> history,
          context |-> render(history)
                        \o (IF prompt_absent(history, prompt)
                            THEN "User: " \o prompt \o "\n" \o name \o ": "
                            ELSE "")]

\* the variant whose handler for unexpected errors is missing
query_llm_narrow(ctx, outcome) ==
    IF ctx.raised
    THEN [raised |-> TRUE, text |-> "", requests |-> 0]
    ELSE CASE outcome.kind = "ok" ->
                [raised |-> FALSE, text |-> outcome.response, requests |-> 1]
           [] outcome.kind = "nofield" ->
                [raised |-> FALSE, text |-> ReplyNoField, requests |-> 1]
           [] outcome.kind = "status" ->
                [raised |-> FALSE, text |-> ReplyBadStatus, requests |-> 1]
           [] outcome.kind = "conn" ->
                [raised |-> FALSE, text |-> ReplyUnavailable, requests |-> 1]
           [] OTHER ->
                [raised |-> TRUE, text |-> "", requests |-> 1]

\* the variant that sends the request again after a connection failure
query_llm_retrying(ctx, outcome) ==
    IF ctx.raised
    THEN [raised |-> FALSE, text |-> ReplyUnexpected, requests |-> 0]
    ELSE CASE outcome.kind = "ok" ->
                [raised |-> FALSE, text |-> outcome.response, requests |-> 1]
           [] outcome.kind = "nofield" ->
                [raised |-> FALSE, text |-> ReplyNoField, requests |-> 1]
           [] outcome.kind = "status" ->
                [raised |-> FALSE, text |-> ReplyBadStatus, requests |-> 1]
           [] outcome.kind = "conn" ->
                [raised |-> FALSE, text |-> ReplyUnavailable, requests |-> 2]
           [] OTHER ->
                [raised |-> FALSE, text |-> ReplyUnexpected, requests |-> 1]

\* the try block after the context is built, for each outcome of requests.post:
\* what is returned, whether an exception leaves the function, requests sent
query_llm(ctx, outcome) ==
    IF ctx.raised
    THEN [raised |-> FALSE, text |-> ReplyUnexpected, requests |-> 0]
    ELSE CASE outcome.kind = "ok" ->
                [raised |-> FALSE, text |-> outcome.response, requests |-> 1]
           [] outcome.kind = "nofield" ->
                [raised |-> FALSE, text |-> ReplyNoField, requests |-> 1]
           [] outcome.kind = "status" ->
                [raised |-> FALSE, text |-> ReplyBadStatus, requests |-> 1]
           [] outcome.kind = "conn" ->
                [raised |-> FALSE, text |-> ReplyUnavailable, requests |-> 1]
           [] OTHER ->
                [raised |-> FALSE, text |-> ReplyUnexpected, requests |-> 1]

-----------------------------------------------------------------------------
(* Command functions.  An engine state is a record                           *)
(*   [history, privacy, stop, voice, log]                                     *)
(* for conversation_history, privacy_mode, should_stop, the application's     *)
(* voice_active and the history variable log; a trace is the record of what   *)
(* one operation did.                                                         *)

Engine(history, privacy, stop, voice, log_) ==
    [history |-> history, privacy |-> privacy, stop |-> stop, voice |-> voice,
     log |-> log_]

\* self.conversation_history.append(message)
push(S, message) ==
    [S EXCEPT !.history = deque_append(@, message), !.log = Append(@, message)]

NewTrace(op, input, S) ==
    [op |-> op, input |-> input, routed |-> FALSE, command |-> "",
     trig |-> "", func |-> "", checked |-> 0, reply |-> "",
     queries |-> 0, requests |-> 0, cont |-> "", outcome |-> "", answer |-> "",
     prompt |-> "", context |-> "", seen |-> <<>>, returned |-> "",
     speaks |-> <<>>, printed |-> "", waiting |-> <<>>,
     before |-> S.history, privacy0 |-> S.privacy,
     raised |-> FALSE, ok |-> TRUE, done |-> FALSE]

\* self.speak(text) inside an operation
Say(S, tr, text) == [tr EXCEPT !.speaks = Append(@, speak(S.privacy, text))]

RECURSIVE join_cmds(_)
join_cmds(i) ==
    IF i > Len(commands) THEN ""
    ELSE (IF i > 1 THEN ", " ELSE "") \o commands[i].cmd \o join_cmds(i + 1)

\* show_help's help_text
help_text == "Here are some commands you can use: " \o join_cmds(1)

StoryPrompt == "Generate a short, engaging story (less than 100 words)"

\* tell_time: [S, tr] after the handler
tell_time(S, tr, now) ==
    [S |-> S, tr |-> Say(S, tr, "The current time is " \o now)]

\* the variant that also forgets the conversation and ends the session
toggle_privacy_clearing(S, tr) ==
    LET S1 == [S EXCEPT !.privacy = ~S.privacy, !.history = <<>>, !.stop = TRUE]
    IN  [S |-> S1,
         tr |-> [Say(S1, tr, IF S1.privacy
                             THEN "Privacy shield activated. I'll be more discreet."
                             ELSE "Privacy shield deactivated. Normal operations resumed.")
                    EXCEPT !.returned = "None"]]

\* toggle_privacy
toggle_privacy(S, tr) ==
    LET S1 == [S EXCEPT !.privacy = ~S.privacy]
    IN  [S |-> S1,
         tr |-> [Say(S1, tr, IF S1.privacy
                             THEN "Privacy shield activated. I'll be more discreet."
                             ELSE "Privacy shield deactivated. Normal operations resumed.")
                    EXCEPT !.returned = "None"]]

\* the variant that says goodbye and leaves the flag alone
stop_listening_forgetful(S, tr) ==
    [S |-> S, tr |-> Say(S, tr, "Goodbye. Going offline now.")]

\* stop_listening
stop_listening(S, tr) ==
    [S |-> [S EXCEPT !.stop = TRUE],
     tr |-> Say(S, tr, "Goodbye. Going offline now.")]

\* show_help
show_help(S, tr) == [S |-> S, tr |-> Say(S, tr, help_text)]

\* func() for the handlers that return without calling the LLM
run_handler(func, S, tr, now) ==
    CASE func = "tell_time" -> tell_time(S, tr, now)
      [] func = "toggle_privacy" -> toggle_privacy(S, tr)
      [] func = "stop_listening" -> stop_listening(S, tr)
      [] OTHER -> show_help(S, tr)

\* the trace after the router's loop
Routed(tr, command, r) ==
    [tr EXCEPT !.routed = TRUE, !.command = command, !.trig = r.trig,
               !.func = r.func, !.checked = r.checked]

\* a call of query_llm that is waiting for requests.post
Frame(route_, cont, prompt, ctx, tr) ==
    [route |-> route_, cont |-> cont, prompt |-> prompt, ctx |-> ctx,
     tr |-> [tr EXCEPT !.queries = @ + 1, !.cont = cont, !.prompt = prompt,
                       !.context = ctx.context, !.seen = ctx.seen]]

NoFrame ==
    [route |-> "", cont |-> "", prompt |-> "",
     ctx |-> [raised |-> FALSE, context |-> "", seen |-> <<>>],
     tr |-> NewTrace("", "", Engine(<<>>, FALSE, FALSE, FALSE, <<>>))]

\* result of the part of an operation that runs up to requests.post (blocked,
\* with the frame) or to its end (with the finished trace)
Step(S, blocked, frame, tr) ==
    [S |-> S, blocked |-> blocked, frame |-> frame,
     tr |-> IF blocked THEN frame.tr ELSE tr]

-----------------------------------------------------------------------------
(* Text route: FridayApp.process_message_thread calling process_text_input *)

\* process_message_thread after process_text_input returned tr.reply:
\* if self.voice_active and not self.friday.privacy_mode: self.friday.speak(response)
gui_tail(S, tr) ==
    LET tr1 == IF S.voice /\ ~S.privacy THEN Say(S, tr, tr.reply) ELSE tr
    IN  [tr1 EXCEPT !.done = TRUE]

\* process_text_input(text) up to its return or to the request of query_llm
text_begin(S, text, now) ==
    LET tr0 == [NewTrace("text", text, S) EXCEPT !.routed = TRUE]
    IN  IF text = ""
        THEN Step(S, FALSE, NoFrame,
                  gui_tail(S, [tr0 EXCEPT !.reply = "Please enter a message."]))
        ELSE
          LET S1 == push(S, Message("user", text))
              command == lower(text)
              r == route(command)
              tr1 == Routed(tr0, command, r)
          IN  IF ~r.matched
              THEN Step(S1, TRUE,
                        Frame("text", "conv", text,
                              build_context(S1.history, text), tr1), tr1)
              ELSE IF r.func = "tell_story"
              THEN LET tr2 == Say(S1, tr1, "Let me think of a story for you...")
                   IN  Step(S1, TRUE,
                            Frame("text", "story", StoryPrompt,
                                  build_context(S1.history, StoryPrompt), tr2), tr2)
              ELSE LET h == run_handler(r.func, S1, tr1, now)
                   IN  Step(h.S, FALSE, NoFrame,
                            gui_tail(h.S, [h.tr EXCEPT
                                !.reply = "Command '" \o r.trig \o "' executed."]))

\* the variant that keeps no record of a reply while privacy is on
text_end_discreet(S, frame, outcome) ==
    LET q == query_llm(frame.ctx, outcome)
        tr1 == [frame.tr EXCEPT !.requests = @ + q.requests,
                                !.outcome = IF frame.ctx.raised THEN "context"
                                            ELSE outcome.kind,
                                !.answer = q.text]
    IN  IF frame.cont = "conv"
        THEN LET S1 == IF S.privacy THEN S
                       ELSE push(S, Message("assistant", q.text))
             IN  [S |-> S1, tr |-> gui_tail(S1, [tr1 EXCEPT !.reply = q.text])]
        ELSE [S |-> S,
              tr |-> gui_tail(S, [Say(S, tr1, q.text) EXCEPT
                        !.reply = "Command 'tell me a story' executed."])]

\* the rest of process_text_input (or of tell_story inside it) once requests.post
\* has returned or raised; an exception leaving query_llm is caught by
\* process_message_thread
text_end(S, frame, outcome) ==
    LET q == query_llm(frame.ctx, outcome)
        tr1 == [frame.tr EXCEPT !.requests = @ + q.requests,
                                !.outcome = IF frame.ctx.raised THEN "context"
                                            ELSE outcome.kind,
                                !.answer = q.text]
    IN  IF q.raised
        THEN [S |-> S, tr |-> [tr1 EXCEPT !.raised = TRUE, !.done = TRUE]]
        ELSE IF frame.cont = "conv"
        THEN LET S1 == push(S, Message("assistant", q.text))
             IN  [S |-> S1, tr |-> gui_tail(S1, [tr1 EXCEPT !.reply = q.text])]
        ELSE [S |-> S,
              tr |-> gui_tail(S, [Say(S, tr1, q.text) EXCEPT
                        !.reply = "Command 'tell me a story' executed."])]

-----------------------------------------------------------------------------
(* Voice route: _process_audio, _process_command, _handle_conversation *)

\* the variant whose loop runs the handler and does not return
process_command_fallthrough(S, tr0, command, now) ==
    LET tr1 == [tr0 EXCEPT !.routed = TRUE, !.command = command]
        r == route(command)
        tr2 == Routed(tr1, command, r)
        h == IF r.matched /\ r.func # "tell_story"
             THEN run_handler(r.func, S, tr2, now)
             ELSE [S |-> S, tr |-> tr2]
        S1 == push(h.S, Message("user", command))
    IN  IF command = ""
        THEN Step(S, FALSE, NoFrame,
                  [Say(S, tr1, "How can I help you?") EXCEPT !.done = TRUE])
        ELSE Step(S1, TRUE,
                  Frame("voice", "conv", command,
                        build_context(S1.history, command), h.tr), h.tr)

\* the variant without the check for an empty command
process_command_unguarded(S, tr0, command, now) ==
    LET r == route(command)
        tr2 == Routed([tr0 EXCEPT !.routed = TRUE], command, r)
    IN  IF ~r.matched
        THEN LET S1 == push(S, Message("user", command))
             IN  Step(S1, TRUE,
                      Frame("voice", "conv", command,
                            build_context(S1.history, command), tr2), tr2)
        ELSE LET h == run_handler(r.func, S, tr2, now)
             IN  Step(h.S, FALSE, NoFrame, [h.tr EXCEPT !.done = TRUE])

\* _process_command(command) up to its return or to the request of query_llm
process_command(S, tr0, command, now) ==
    LET tr1 == [tr0 EXCEPT !.routed = TRUE, !.command = command]
    IN  IF command = ""
        THEN Step(S, FALSE, NoFrame,
                  [Say(S, tr1, "How can I help you?") EXCEPT !.done = TRUE])
        ELSE
          LET r == route(command)
              tr2 == Routed(tr1, command, r)
          IN  IF ~r.matched
              THEN LET S1 == push(S, Message("user", command))
                   IN  Step(S1, TRUE,
                            Frame("voice", "conv", command,
                                  build_context(S1.history, command), tr2), tr2)
              ELSE IF r.func = "tell_story"
              THEN LET tr3 == Say(S, tr2, "Let me think of a story for you...")
                   IN  Step(S, TRUE,
                            Frame("voice", "story", StoryPrompt,
                                  build_context(S.history, StoryPrompt), tr3), tr3)
              ELSE LET h == run_handler(r.func, S, tr2, now)
                   IN  Step(h.S, FALSE, NoFrame, [h.tr EXCEPT !.done = TRUE])

\* the variant that hands every audio unit to the router
process_audio_unfiltered(S, audio, now) ==
    process_command(S, NewTrace("voice", audio.text, S),
                    extract_command(lower(audio.text)), now)

\* _process_audio(audio): audio.rec tells which recognizer produced audio.text,
\* "miss" when recognize_google and recognize_sphinx both gave nothing
process_audio(S, audio, now) ==
    LET tr0 == NewTrace("voice", audio.text, S)
        text == lower(audio.text)
    IN  IF audio.rec = "miss" \/ ~has_wake(text)
        THEN Step(S, FALSE, NoFrame, [tr0 EXCEPT !.done = TRUE])
        ELSE process_command(S, tr0, extract_command(text), now)

\* the variant that speaks the reply without recording it
voice_end_unrecorded(S, frame, outcome) ==
    LET q == query_llm(frame.ctx, outcome)
        tr1 == [frame.tr EXCEPT !.requests = @ + q.requests,
                                !.outcome = IF frame.ctx.raised THEN "context"
                                            ELSE outcome.kind,
                                !.answer = q.text]
    IN  [S |-> S,
         tr |-> [Say(S, tr1, q.text) EXCEPT
                    !.reply = IF frame.cont = "conv" THEN q.text ELSE @,
                    !.done = TRUE]]

\* the rest of _handle_conversation (or of tell_story) once requests.post has
\* returned or raised; an exception leaving query_llm leaves listen() too
voice_end(S, frame, outcome) ==
    LET q == query_llm(frame.ctx, outcome)
        tr1 == [frame.tr EXCEPT !.requests = @ + q.requests,
                                !.outcome = IF frame.ctx.raised THEN "context"
                                            ELSE outcome.kind,
                                !.answer = q.text]
    IN  IF q.raised
        THEN [S |-> S, tr |-> [tr1 EXCEPT !.raised = TRUE, !.done = TRUE]]
        ELSE IF frame.cont = "conv"
        THEN LET S1 == push(S, Message("assistant", q.text))
             IN  [S |-> S1,
                  tr |-> [Say(S1, tr1, q.text) EXCEPT !.reply = q.text, !.done = TRUE]]
        ELSE [S |-> S, tr |-> [Say(S, tr1, q.text) EXCEPT !.done = TRUE]]

-----------------------------------------------------------------------------
(* json.dump and json.load.  A file's text is a sequence of tokens: the      *)
(* punctuation [ ] { } : , the literals null true false, numerals, and        *)
(* string tokens, written with their quotes and escapes.                      *)

\* the escape json.dump writes for one character
escape_char(c) ==
    CASE c = "\"" -> "\\\""
      [] c = "\\" -> "\\\\"
      [] c = "\n" -> "\\n"
      [] c = "\t" -> "\\t"
      [] OTHER -> c

RECURSIVE escape(_)
\* the body of a JSON string for the Python str s
escape(s) ==
    IF Len(s) = 0 THEN ""
    ELSE IF Len(s) = 1 THEN escape_char(s)
    ELSE LET h == Len(s) \div 2
         IN  escape(SubSeq(s, 1, h)) \o escape(SubSeq(s, h + 1, Len(s)))

quote(s) == "\"" \o escape(s) \o "\""

RECURSIVE unescape(_)
\* the Python str for the body of a JSON string, or the decode error
unescape(b) ==
    LET special == {i \in 1..Len(b) : Char(b, i) \in {"\"", "\\"}}
    IN  IF special = {} THEN [ok |-> TRUE, s |-> b]
        ELSE LET p == CHOOSE i \in special : \A j \in special : i <= j
             IN  IF Char(b, p) = "\"" THEN [ok |-> FALSE, s |-> ""]
                 ELSE IF p = Len(b) \/ Char(b, p + 1) \notin {"\"", "\\", "n", "t", "/"}
                 THEN [ok |-> FALSE, s |-> ""]
                 ELSE LET e == Char(b, p + 1)
                          r == unescape(SubSeq(b, p + 2, Len(b)))
                      IN  [ok |-> r.ok,
                           s |-> SubSeq(b, 1, p - 1)
                                    \o (CASE e = "n" -> "\n"
                                          [] e = "t" -> "\t"
                                          [] OTHER -> e)
                                    \o r.s]

IsStringToken(t) == Len(t) >= 2 /\ Char(t, 1) = "\"" /\ Char(t, Len(t)) = "\""

unquote(t) == unescape(SubSeq(t, 2, Len(t) - 1))

IsNumberToken(t) ==
    /\ Len(t) >= 1
    /\ \A i \in 1..Len(t) : Char(t, i) \in {"0", "1", "2", "3", "4", "5", "6", "7", "8", "9"}

JBool(s) == [k |-> "bool", s |-> s, m |-> <<>>]

RECURSIVE dump_value(_)
RECURSIVE dump_items(_, _)
\* the tokens json.dump writes for a value
dump_value(v) ==
    CASE v.k = "str" -> <<quote(v.s)>>
      [] v.k = "arr" -> <<"[">> \o dump_items(v.m, FALSE) \o <<"]">>
      [] v.k = "obj" -> <<"{">> \o dump_items(v.m, TRUE) \o <<"}">>
      [] v.k = "null" -> <<"null">>
      [] OTHER -> <<v.s>>

dump_items(ms, keyed) ==
    IF ms = <<>> THEN <<>>
    ELSE (IF keyed THEN <<quote(Head(ms).key), ":">> ELSE <<>>)
            \o dump_value(Head(ms).val)
            \o (IF Len(ms) > 1 THEN <<",">> ELSE <<>>)
            \o dump_items(Tail(ms), keyed)

\* json.dump(list(self.conversation_history), f, indent=2)
json_dump(history) == dump_value(JArr(history))

ParseFail == [ok |-> FALSE, val |-> JNull, rest |-> <<>>]
Parsed(v, rest) == [ok |-> TRUE, val |-> v, rest |-> rest]

RECURSIVE parse_value(_)
RECURSIVE parse_items(_, _, _)
\* one value from the front of the tokens
parse_value(t) ==
    IF t = <<>> THEN ParseFail
    ELSE LET h == Head(t)
         IN  CASE h = "[" ->
                    IF Len(t) >= 2 /\ t[2] = "]"
                    THEN Parsed(JArr(<<>>), SubSeq(t, 3, Len(t)))
                    ELSE parse_items(Tail(t), <<>>, FALSE)
               [] h = "{" ->
                    IF Len(t) >= 2 /\ t[2] = "}"
                    THEN Parsed(JObj(<<>>), SubSeq(t, 3, Len(t)))
                    ELSE parse_items(Tail(t), <<>>, TRUE)
               [] h = "null" -> Parsed(JNull, Tail(t))
               [] h \in {"true", "false"} -> Parsed(JBool(h), Tail(t))
               [] IsStringToken(h) ->
                    IF unquote(h).ok THEN Parsed(JStr(unquote(h).s), Tail(t))
                    ELSE ParseFail
               [] IsNumberToken(h) -> Parsed(JNum(h), Tail(t))
               [] OTHER -> ParseFail

\* the items of an array (keyed = FALSE) or the members of an object after the
\* opening bracket, up to and including the closing one
parse_items(t, acc, keyed) ==
    LET keyOk == ~keyed \/ (Len(t) >= 2 /\ IsStringToken(t[1]) /\ unquote(t[1]).ok
                            /\ t[2] = ":")
        key == IF keyed THEN unquote(t[1]).s ELSE ""
        r == parse_value(IF keyed THEN SubSeq(t, 3, Len(t)) ELSE t)
        acc1 == Append(acc, [key |-> key, val |-> r.val])
        close == IF keyed THEN "}" ELSE "]"
    IN  IF ~keyOk THEN ParseFail
        ELSE IF ~r.ok \/ r.rest = <<>> THEN ParseFail
        ELSE IF Head(r.rest) = close
             THEN Parsed([k |-> IF keyed THEN "obj" ELSE "arr", s |-> "", m |-> acc1],
                         Tail(r.rest))
        ELSE IF Head(r.rest) = "," THEN parse_items(Tail(r.rest), acc1, keyed)
        ELSE ParseFail

\* json.load(f): the value, or ok = FALSE for a JSONDecodeError
json_load(tokens) ==
    LET r == parse_value(tokens)
    IN  IF r.ok /\ r.rest = <<>> THEN [ok |-> TRUE, val |-> r.val]
        ELSE [ok |-> FALSE, val |-> JNull]

-----------------------------------------------------------------------------
(* Persistence: save_conversation and load_conversation.  A file is a record *)
(* [name, exists, readable, tokens, source]; source is a history variable,   *)
(* the buffer save_conversation wrote the tokens from.                       *)

File(name_, exists, readable, tokens, source) ==
    [name |-> name_, exists |-> exists, readable |-> readable,
     tokens |-> tokens, source |-> source]

SessionPath == "session.json"

NoFile(name_) == File(name_, FALSE, FALSE, <<>>, <<>>)

\* save_conversation(filepath): io = "denied" when open(filepath, 'w') raises
save_conversation(S, file, io) ==
    IF io = "ok"
    THEN [file |-> File(file.name, TRUE, TRUE, json_dump(S.history), S.history),
          ok |-> TRUE]
    ELSE [file |-> file, ok |-> FALSE]

\* what `for message in loaded_history` yields
iterate(v) ==
    CASE v.k = "arr" -> Elems(v)
      [] v.k = "obj" -> [i \in 1..Len(v.m) |-> JStr(v.m[i].key)]
      [] OTHER -> [i \in 1..Len(v.s) |-> JStr(Char(v.s, i))]

\* the variant that fills the buffer from the left
load_conversation_reversed(S, file) ==
    LET p == json_load(file.tokens)
        xs == iterate(p.val)
    IN  IF ~file.exists \/ ~file.readable \/ ~p.ok THEN [S |-> S, ok |-> FALSE]
        ELSE IF p.val.k \notin {"arr", "obj", "str"}
        THEN [S |-> [S EXCEPT !.history = <<>>, !.log = <<>>], ok |-> FALSE]
        ELSE [S |-> [S EXCEPT
                        !.history = deque_extend(<<>>,
                                        [i \in 1..Len(xs) |-> xs[Len(xs) + 1 - i]]),
                        !.log = xs],
              ok |-> TRUE]

\* load_conversation(filepath)
load_conversation(S, file) ==
    LET p == json_load(file.tokens)
    IN  IF ~file.exists THEN [S |-> S, ok |-> FALSE]
        ELSE IF ~file.readable \/ ~p.ok THEN [S |-> S, ok |-> FALSE]
        ELSE IF p.val.k \notin {"arr", "obj", "str"}
        THEN \* clear() has run when iterating the value raises TypeError
             [S |-> [S EXCEPT !.history = <<>>, !.log = <<>>], ok |-> FALSE]
        ELSE [S |-> [S EXCEPT !.history = deque_extend(<<>>, iterate(p.val)),
                              !.log = iterate(p.val)],
              ok |-> TRUE]

-----------------------------------------------------------------------------
(* Inputs *)

\* what the user types
TextInputs ==
    {"", "say \"hi\"", "What time is it?", "Privacy mode, stop listening",
     "tell me a story"}

\* datetime.now().strftime("%I:%M %p")
Clock == {"09:41 AM"}

\* what requests.post and response.json() can give
Outcomes ==
    { [kind |-> "ok", response |-> "Hello!"],
      [kind |-> "nofield", response |-> ""],
      [kind |-> "status", response |-> ""],
      [kind |-> "conn", response |-> ""],
      [kind |-> "other", response |-> ""] }

\* what the microphone captures
AudioUnits ==
    { [rec |-> "google", text |-> "Hey Friday"],
      [rec |-> "google", text |-> "friday what day is friday"],
      [rec |-> "sphinx", text |-> "ok friday help me exit"],
      [rec |-> "google", text |-> "good morning"],
      [rec |-> "miss", text |-> ""] }

\* files the user can pick in the load dialog, besides the saved session
ExternalFiles ==
    { NoFile("missing.json"),
      File("locked.json", TRUE, FALSE, <<"[", "]">>, <<>>),
      File("cut.json", TRUE, TRUE, <<"[", "{", "\"role\"", ":">>, <<>>),
      File("number.json", TRUE, TRUE, <<"42">>, <<>>),
      File("object.json", TRUE, TRUE,
           <<"{", "\"role\"", ":", "\"user\"", ",", "\"content\"", ":", "\"hi\"", "}">>, <<>>),
      File("norole.json", TRUE, TRUE,
           <<"[", "{", "\"content\"", ":", "\"hi\"", "}", "]">>, <<>>),
      File("story.json", TRUE, TRUE,
           json_dump(<<Message("user", "hi"),
                       Message("assistant", "Hello!"),
                       Message("user", "one more"),
                       Message("user", StoryPrompt)>>), <<>>) }

-----------------------------------------------------------------------------
(* State *)

\* the engine state the operators work on
Now == Engine(conversation_history, privacy_mode, should_stop, voice_active, log)

\* write an engine state back
Install(S) ==
    /\ conversation_history' = S.history
    /\ privacy_mode' = S.privacy
    /\ should_stop' = S.stop
    /\ log' = S.log

Remove(seq, i) == SubSeq(seq, 1, i - 1) \o SubSeq(seq, i + 1, Len(seq))

NoTwin == [S |-> Engine(<<>>, FALSE, FALSE, FALSE, <<>>),
           tr |-> NewTrace("", "", Engine(<<>>, FALSE, FALSE, FALSE, <<>>))]

\* the message optimi_fridayapp FridayApp.__init__ schedules for display
Greeting ==
    "Hello! I'm FRIDAY (1.1 Optimized), your offline AI assistant. How can I help you?"

\* FridayCore.__init__ followed by FridayApp.__init__ (the last four are the
\* window of optimi_fridayapp, which only its own steps change)
Constructed ==
    /\ conversation_history = <<>>
    /\ privacy_mode = FALSE
    /\ should_stop = FALSE
    /\ is_listening = FALSE
    /\ audio_queue = <<>>
    /\ voice_active = FALSE
    /\ tasks = <<>>
    /\ listeners = <<>>
    /\ producers = 0
    /\ pending = 0
    /\ privacy_shown = FALSE
    /\ chat_history = <<>>
    /\ chat_display = <<>>
    /\ status = "System Ready. Model: deepseek-r1:1.5b"
    /\ scheduled = <<[fn |-> "greeting", arg |-> Greeting]>>
    /\ disk = NoFile(SessionPath)
    /\ log = <<>>
    /\ ops = 0
    /\ last = [Say(Now, NewTrace("init", "", Now), "I am here and ready to assist you.")
                  EXCEPT !.done = TRUE]

Init == Constructed /\ twin = NoTwin

-----------------------------------------------------------------------------
(* Text route *)

\* a message thread runs process_message_thread(user_message) up to the reply,
\* or up to the inference request
process_message_thread(text, now) ==
    /\ ops < MaxOps
    /\ \E st \in {text_begin(Now, text, now)} :
        /\ st.blocked => Len(tasks) < MaxTasks
        /\ Install(st.S)
        /\ tasks' = IF st.blocked THEN Append(tasks, st.frame) ELSE tasks
        /\ last' = st.tr
        /\ ops' = ops + 1
        /\ UNCHANGED <<is_listening, audio_queue, voice_active, listeners,
                       producers, pending, disk, twin,
                       privacy_shown, window>>

\* requests.post returns or raises in message thread i, which runs to its end
message_reply(i, outcome) ==
    \E e \in {text_end(Now, tasks[i], outcome)} :
        /\ Install(e.S)
        /\ tasks' = Remove(tasks, i)
        /\ last' = e.tr
        /\ UNCHANGED <<is_listening, audio_queue, voice_active, listeners,
                       producers, pending, disk, ops, twin,
                       privacy_shown, window>>

\* FridayApp.toggle_privacy: the privacy button, whose text is set from the
\* engine's flag after the engine toggled it
privacy_button ==
    /\ ops < MaxOps
    /\ \E r \in {toggle_privacy(Now, NewTrace("toggle_privacy", "", Now))} :
        /\ Install(r.S)
        /\ privacy_shown' = r.S.privacy
        /\ last' = [r.tr EXCEPT !.done = TRUE]
        /\ ops' = ops + 1
        /\ UNCHANGED <<is_listening, audio_queue, voice_active, tasks, listeners,
                       producers, pending, disk, twin, window>>

-----------------------------------------------------------------------------
(* Voice route *)

Listener(pc, frame, current) == [pc |-> pc, frame |-> frame, current |-> current]

\* FridayApp.toggle_voice; switching on starts voice_listen_thread, which
\* clears should_stop and enters listen(): is_listening is set and the capture
\* thread is started
ToggleVoice ==
    IF voice_active
    THEN /\ voice_active' = FALSE
         /\ should_stop' = IF \E i \in 1..Len(listeners) : listeners[i].current
                           THEN TRUE ELSE should_stop
         /\ UNCHANGED <<is_listening, listeners, producers,
                        privacy_shown, window>>
    ELSE /\ Len(listeners) < MaxListeners
         /\ voice_active' = TRUE
         /\ should_stop' = FALSE
         /\ is_listening' = TRUE
         /\ listeners' = Append([i \in 1..Len(listeners) |->
                                    [listeners[i] EXCEPT !.current = FALSE]],
                                Listener("idle", NoFrame, TRUE))
         /\ producers' = producers + 1

\* the voice button
voice_button ==
    /\ ops < MaxOps
    /\ ToggleVoice
    /\ ops' = ops + 1
    /\ last' = [NewTrace("toggle_voice", "", Now) EXCEPT !.done = TRUE]
    /\ UNCHANGED <<conversation_history, privacy_mode, audio_queue, tasks,
                   pending, disk, log, twin,
                   privacy_shown, window>>

\* the event loop runs a toggle_voice scheduled by voice_listen_thread
run_pending ==
    /\ pending > 0
    /\ ToggleVoice
    /\ pending' = pending - 1
    /\ last' = [NewTrace("toggle_voice", "", Now) EXCEPT !.done = TRUE]
    /\ UNCHANGED <<conversation_history, privacy_mode, audio_queue, tasks,
                   disk, log, ops, twin,
                   privacy_shown, window>>

\* FridayApp.on_closing when the user cancels the quit dialog (confirming it
\* ends the process); join(timeout=1) returns whether or not the thread ended
on_closing ==
    /\ ops < MaxOps
    /\ should_stop' = IF voice_active THEN TRUE ELSE should_stop
    /\ ops' = ops + 1
    /\ last' = [NewTrace("on_closing", "", Now) EXCEPT !.done = TRUE]
    /\ UNCHANGED <<conversation_history, privacy_mode, is_listening, audio_queue,
                   voice_active, tasks, listeners, producers, pending, disk,
                   log, twin,
                   privacy_shown, window>>

\* queue.Queue(): no maxsize is given, and the default 0 means no capacity
maxsize == 0

\* whether audio_queue.put(audio) has to wait: only a positive maxsize is a
\* capacity
full(q) == 0 < maxsize /\ maxsize <= Len(q)

\* what recognizer.listen can raise: sr.WaitTimeoutError, or anything else
CaptureFailures ==
    { [rec |-> "timeout", text |-> ""],
      [rec |-> "error", text |-> ""] }

\* the variant whose loop is left by an unexpected failure
capture_fragile(audio) ==
    /\ ops < MaxOps
    /\ producers > 0
    /\ ~should_stop
    /\ \/ /\ audio.rec = "timeout"
          /\ UNCHANGED <<audio_queue, producers, last, ops>>
       \/ /\ audio.rec = "error"
          /\ producers' = producers - 1
          /\ ops' = ops + 1
          /\ UNCHANGED <<audio_queue, last>>
       \/ /\ audio \notin CaptureFailures
          /\ ~full(audio_queue)
          /\ Len(audio_queue) < MaxQueue
          /\ audio_queue' = Append(audio_queue, audio)
          /\ ops' = ops + 1
          /\ UNCHANGED <<producers, last>>
    /\ UNCHANGED <<conversation_history, privacy_mode, should_stop, is_listening,
                   voice_active, tasks, listeners, pending, disk,
                   log, twin, privacy_shown, window>>

\* one iteration of _listen_thread: recognizer.listen, then audio_queue.put;
\* or WaitTimeoutError and pass; or another exception, which is printed and
\* followed by time.sleep(1)
capture(audio) ==
    /\ ops < MaxOps
    /\ producers > 0
    /\ ~should_stop
    /\ \/ /\ audio.rec = "timeout"
          /\ UNCHANGED <<audio_queue, last, ops>>
       \/ /\ audio.rec = "error"
          /\ last' = [NewTrace("capture", "", Now) EXCEPT
                         !.printed = "Error in listen thread", !.done = TRUE]
          /\ ops' = ops + 1
          /\ UNCHANGED audio_queue
       \/ /\ audio \notin CaptureFailures
          /\ ~full(audio_queue)
          /\ Len(audio_queue) < MaxQueue
          /\ audio_queue' = Append(audio_queue, audio)
          /\ ops' = ops + 1
          /\ UNCHANGED last
    /\ UNCHANGED <<conversation_history, privacy_mode, should_stop, is_listening,
                   voice_active, tasks, listeners, producers, pending, disk,
                   log, twin, privacy_shown, window>>

\* _listen_thread leaves its while loop
producer_exit ==
    /\ producers > 0
    /\ should_stop
    /\ producers' = producers - 1
    /\ UNCHANGED <<conversation_history, privacy_mode, should_stop, is_listening,
                   audio_queue, voice_active, tasks, listeners, pending, disk,
                   last, log, ops, twin,
                   privacy_shown, window>>

\* the variant that takes the newest unit of the queue
consume_newest(i, now) ==
    /\ listeners[i].pc = "idle"
    /\ ~should_stop
    /\ audio_queue # <<>>
    /\ \E st \in {process_audio(Now, audio_queue[Len(audio_queue)], now)} :
           /\ Install(st.S)
           /\ listeners' = [listeners EXCEPT ![i] =
                                IF st.blocked
                                THEN Listener("query", st.frame, @.current)
                                ELSE @]
           /\ last' = [st.tr EXCEPT
                          !.waiting = SubSeq(audio_queue, 1, Len(audio_queue) - 1)]
    /\ audio_queue' = SubSeq(audio_queue, 1, Len(audio_queue) - 1)
    /\ UNCHANGED <<is_listening, voice_active, tasks, producers, pending, disk,
                   ops, twin,
                   privacy_shown, window>>

\* one iteration of listen's while loop: audio_queue.get, _process_audio
consume(i, now) ==
    /\ listeners[i].pc = "idle"
    /\ ~should_stop
    /\ audio_queue # <<>>
    /\ \E st \in {process_audio(Now, Head(audio_queue), now)} :
           /\ Install(st.S)
           /\ listeners' = [listeners EXCEPT ![i] =
                                IF st.blocked
                                THEN Listener("query", st.frame, @.current)
                                ELSE @]
           /\ last' = [st.tr EXCEPT !.waiting = Tail(audio_queue)]
    /\ audio_queue' = Tail(audio_queue)
    /\ UNCHANGED <<is_listening, voice_active, tasks, producers, pending, disk,
                   ops, twin,
                   privacy_shown, window>>

\* requests.post returns or raises in listen loop i; an exception leaves
\* listen(), and voice_listen_thread schedules toggle_voice in its except
\* clause and again after it when voice_active is set
voice_reply(i, outcome) ==
    /\ listeners[i].pc = "query"
    /\ \E e \in {voice_end(Now, listeners[i].frame, outcome)} :
           /\ Install(e.S)
           /\ last' = e.tr
           /\ listeners' = IF e.tr.raised THEN Remove(listeners, i)
                           ELSE [listeners EXCEPT ![i] =
                                    Listener("idle", NoFrame, @.current)]
           /\ pending' = IF e.tr.raised
                         THEN pending + 1 + (IF voice_active THEN 1 ELSE 0)
                         ELSE pending
    /\ UNCHANGED <<is_listening, audio_queue, voice_active, tasks, producers,
                   disk, ops, twin,
                   privacy_shown, window>>

\* the variant in which a stop request ends the loop wherever it is
listen_exit_abrupt(i) ==
    /\ should_stop
    /\ is_listening' = FALSE
    /\ listeners' = Remove(listeners, i)
    /\ pending' = pending + (IF voice_active THEN 1 ELSE 0)
    /\ UNCHANGED <<conversation_history, privacy_mode, should_stop, audio_queue,
                   voice_active, tasks, producers, disk, last, log, ops, twin,
                   privacy_shown, window>>

\* listen's while loop sees should_stop; voice_listen_thread then schedules
\* toggle_voice when voice_active is still set
listen_exit(i) ==
    /\ listeners[i].pc = "idle"
    /\ should_stop
    /\ is_listening' = FALSE
    /\ listeners' = Remove(listeners, i)
    /\ pending' = pending + (IF voice_active THEN 1 ELSE 0)
    /\ UNCHANGED <<conversation_history, privacy_mode, should_stop, audio_queue,
                   voice_active, tasks, producers, disk, last, log, ops, twin,
                   privacy_shown, window>>

-----------------------------------------------------------------------------
(* Persistence *)

\* FridayApp.save_chat
save_chat(io) ==
    /\ ops < MaxOps
    /\ \E r \in {save_conversation(Now, disk, io)} :
        /\ disk' = r.file
        /\ last' = [NewTrace("save", disk.name, Now) EXCEPT !.ok = r.ok, !.done = TRUE]
        /\ ops' = ops + 1
        /\ UNCHANGED <<conversation_history, privacy_mode, should_stop, is_listening,
                       audio_queue, voice_active, tasks, listeners, producers,
                       pending, log, twin,
                       privacy_shown, window>>

\* FridayApp.load_chat with the file picked in the dialog
load_chat(file) ==
    /\ ops < MaxOps
    /\ \E r \in {load_conversation(Now, file)} :
        /\ Install(r.S)
        /\ last' = [NewTrace("load", file.name, Now) EXCEPT !.ok = r.ok, !.done = TRUE]
        /\ ops' = ops + 1
        /\ UNCHANGED <<is_listening, audio_queue, voice_active, tasks, listeners,
                       producers, pending, disk, twin,
                       privacy_shown, window>>

-----------------------------------------------------------------------------
(* The application with its engine *)

Next ==
    \/ \E text \in TextInputs, now \in Clock : process_message_thread(text, now)
    \/ \E i \in 1..Len(tasks), outcome \in Outcomes : message_reply(i, outcome)
    \/ privacy_button
    \/ voice_button
    \/ run_pending
    \/ on_closing
    \/ \E audio \in AudioUnits \cup CaptureFailures : capture(audio)
    \/ producer_exit
    \/ \E i \in 1..Len(listeners), now \in Clock : consume(i, now)
    \/ \E i \in 1..Len(listeners), outcome \in Outcomes : voice_reply(i, outcome)
    \/ \E i \in 1..Len(listeners) : listen_exit(i)
    \/ \E io \in {"ok", "denied"} : save_chat(io)
    \/ \E file \in {disk} \cup ExternalFiles : load_chat(file)

Spec == Init /\ [][Next]_vars

\* The threads are scheduled and requests.post has a timeout: a reply arrives,
\* a loop that can test should_stop does so, a scheduled callback runs.  What
\* the user does and what the microphone hears are not forced.
Fairness ==
    /\ WF_vars(\E i \in 1..Len(tasks), outcome \in Outcomes : message_reply(i, outcome))
    /\ WF_vars(\E i \in 1..Len(listeners), outcome \in Outcomes : voice_reply(i, outcome))
    /\ WF_vars(\E i \in 1..Len(listeners) : listen_exit(i))
    /\ WF_vars(producer_exit)
    /\ WF_vars(run_pending)

SpecFair == Spec /\ Fairness

-----------------------------------------------------------------------------
(* The application when its devices can fail: engine.say or                  *)
(* engine.runAndWait raises inside speak, and on the voice route nothing     *)
(* between speak and voice_listen_thread catches the exception; or           *)
(* sr.Microphone() raises when the capture thread opens the microphone.      *)

\* one iteration of listen's while loop in which the first call of speak that
\* reaches the engine raises: what the handler did before that call stays
\* (toggle_privacy has flipped the flag, stop_listening has not yet set
\* should_stop), the exception leaves _process_audio and listen(), and
\* voice_listen_thread schedules toggle_voice in its except clause and again
\* after it when voice_active is set
listen_raises(i, now) ==
    /\ listeners[i].pc = "idle"
    /\ ~should_stop
    /\ audio_queue # <<>>
    /\ \E st \in {process_audio(Now, Head(audio_queue), now)} :
           /\ st.tr.speaks # <<>>
           /\ st.tr.speaks[1].engine
           /\ Install(IF st.tr.func = "toggle_privacy" THEN st.S ELSE Now)
           /\ last' = [st.tr EXCEPT !.speaks = <<st.tr.speaks[1]>>,
                                    !.queries = 0,
                                    !.waiting = Tail(audio_queue),
                                    !.raised = TRUE,
                                    !.done = TRUE]
    /\ audio_queue' = Tail(audio_queue)
    /\ listeners' = Remove(listeners, i)
    /\ pending' = pending + 1 + (IF voice_active THEN 1 ELSE 0)
    /\ UNCHANGED <<is_listening, voice_active, tasks, producers, disk,
                   ops, twin,
                   privacy_shown, window>>

\* the voice button switches voice mode on and sr.Microphone() raises in the
\* new _listen_thread, before its loop and outside its try: the thread ends
\* with a traceback and listen() goes on without it
microphone_fails ==
    /\ ops < MaxOps
    /\ ~voice_active
    /\ Len(listeners) < MaxListeners
    /\ voice_active' = TRUE
    /\ should_stop' = FALSE
    /\ is_listening' = TRUE
    /\ listeners' = Append([i \in 1..Len(listeners) |->
                               [listeners[i] EXCEPT !.current = FALSE]],
                           Listener("idle", NoFrame, TRUE))
    /\ ops' = ops + 1
    /\ last' = [NewTrace("toggle_voice", "", Now) EXCEPT
                   !.printed = "Exception in thread", !.done = TRUE]
    /\ UNCHANGED <<conversation_history, privacy_mode, audio_queue, tasks,
                   producers, pending, disk, log, twin,
                   privacy_shown, window>>

NextFaulty ==
    \/ Next
    \/ \E i \in 1..Len(listeners), now \in Clock : listen_raises(i, now)
    \/ microphone_fails

\* the threads are scheduled as in SpecFair
SpecFaulty == Init /\ [][NextFaulty]_vars /\ Fairness

-----------------------------------------------------------------------------
(* Two runs of the text route that differ only in privacy_mode: the second   *)
(* run, twin, starts from the engine as constructed with the privacy flag    *)
(* set, and every input and inference outcome is given to both.              *)

\* process_text_input from call to return, the inference outcome given
text_run(S, text, now, outcome) ==
    LET a == text_begin(S, text, now)
    IN  IF a.blocked THEN text_end(a.S, a.frame, outcome)
        ELSE [S |-> a.S, tr |-> a.tr]

InitTwin ==
    /\ Constructed
    /\ twin = [S |-> Engine(<<>>, TRUE, FALSE, FALSE, <<>>),
               tr |-> NewTrace("init", "", Engine(<<>>, TRUE, FALSE, FALSE, <<>>))]

\* the same message and the same outcome in both runs
twin_message(text, now, outcome) ==
    /\ ops < MaxOps
    /\ \E a \in {text_run(Now, text, now, outcome)},
          b \in {text_run(twin.S, text, now, outcome)} :
        /\ Install(a.S)
        /\ last' = a.tr
        /\ twin' = [S |-> b.S, tr |-> b.tr]
        /\ ops' = ops + 1
        /\ UNCHANGED <<is_listening, audio_queue, voice_active, tasks, listeners,
                       producers, pending, disk,
                       privacy_shown, window>>

\* the voice button, pressed in both runs
twin_voice_button ==
    /\ ops < MaxOps
    /\ ToggleVoice
    /\ ops' = ops + 1
    /\ last' = [NewTrace("toggle_voice", "", Now) EXCEPT !.done = TRUE]
    /\ twin' = [twin EXCEPT !.S.voice = voice_active', !.S.stop = should_stop']
    /\ UNCHANGED <<conversation_history, privacy_mode, audio_queue, tasks,
                   pending, disk, log,
                   privacy_shown, window>>

NextTwin ==
    \/ \E text \in TextInputs, now \in Clock, outcome \in Outcomes :
            twin_message(text, now, outcome)
    \/ twin_voice_button

SpecTwin == InitTwin /\ [][NextTwin]_vars

-----------------------------------------------------------------------------
(* The window of optimi_fridayapp over the same engine: the message path.    *)
(* Event-loop steps are on_send_message and run_scheduled; the steps of a    *)
(* message thread are process_user_query and user_query_reply.  Voice mode   *)
(* stays off here, so the thread speaks nothing.                             *)

\* an entry of chat_history (its time field is left out)
Entry(role, content) == [role |-> role, content |-> content]

\* a message block of chat_display
Block(role, text) == [role |-> role, text |-> text]

\* a callback handed to root.after(0, ...)
Callback(fn, arg) == [fn |-> fn, arg |-> arg]

\* a thread created by _on_send_message that has not run yet
Started(text) == [NoFrame EXCEPT !.route = "start", !.prompt = text]

\* FridayApp._on_send_message on the event loop
on_send_message(text) ==
    /\ ops < MaxOps
    /\ Len(tasks) < MaxTasks
    /\ strip(text) # ""
    /\ chat_display' = Append(chat_display, Block("user", strip(text)))
    /\ chat_history' = Append(chat_history, Entry("user", strip(text)))
    /\ status' = "FRIDAY is thinking..."
    /\ tasks' = Append(tasks, Started(strip(text)))
    /\ last' = [NewTrace("send", text, Now) EXCEPT !.done = TRUE]
    /\ ops' = ops + 1
    /\ UNCHANGED <<conversation_history, privacy_mode, should_stop, is_listening,
                   audio_queue, voice_active, listeners, producers, pending,
                   privacy_shown, scheduled, disk, log, twin>>

\* _process_user_query after process_text_input returned or raised, in the
\* message thread: the entry is appended to chat_history there, the display
\* and the status are left to callbacks
query_done(tr) ==
    IF tr.raised
    THEN /\ chat_history' = Append(chat_history, Entry("system", "Core Error"))
         /\ scheduled' = scheduled \o
                <<Callback("display_system_message", "Core Error"),
                  Callback("processing_indicator.stop", ""),
                  Callback("update_status", "Error processing query.")>>
    ELSE /\ chat_history' = Append(chat_history, Entry("assistant", tr.reply))
         /\ scheduled' = Append(scheduled,
                                Callback("display_assistant_message", tr.reply))

\* a message thread starts: process_text_input up to its return or to the
\* inference request
process_user_query(i, now) ==
    /\ tasks[i].route = "start"
    /\ \E st \in {text_begin(Now, tasks[i].prompt, now)} :
        /\ Install(st.S)
        /\ last' = st.tr
        /\ IF st.blocked
           THEN /\ tasks' = [tasks EXCEPT ![i] = st.frame]
                /\ UNCHANGED <<chat_history, scheduled>>
           ELSE /\ tasks' = Remove(tasks, i)
                /\ query_done(st.tr)
    /\ UNCHANGED <<is_listening, audio_queue, voice_active, listeners, producers,
                   pending, privacy_shown, chat_display, status, disk, ops, twin>>

\* requests.post returns or raises in message thread i, which runs to its end
user_query_reply(i, outcome) ==
    /\ tasks[i].route = "text"
    /\ \E e \in {text_end(Now, tasks[i], outcome)} :
        /\ Install(e.S)
        /\ last' = e.tr
        /\ tasks' = Remove(tasks, i)
        /\ query_done(e.tr)
    /\ UNCHANGED <<is_listening, audio_queue, voice_active, listeners, producers,
                   pending, privacy_shown, chat_display, status, disk, ops, twin>>

\* the event loop runs the oldest callback; display_assistant_message types
\* the message out and ends with update_status("Ready.")
run_scheduled ==
    /\ scheduled # <<>>
    /\ scheduled' = Tail(scheduled)
    /\ LET cb == Head(scheduled)
       IN  CASE cb.fn = "display_assistant_message" ->
                    /\ chat_display' = Append(chat_display, Block("assistant", cb.arg))
                    /\ status' = "Ready."
             [] cb.fn = "greeting" ->
                    /\ chat_display' = Append(chat_display, Block("assistant", cb.arg))
                    /\ UNCHANGED status
             [] cb.fn = "display_system_message" ->
                    /\ chat_display' = Append(chat_display, Block("error", cb.arg))
                    /\ UNCHANGED status
             [] cb.fn = "update_status" ->
                    /\ status' = cb.arg
                    /\ UNCHANGED chat_display
             [] OTHER -> UNCHANGED <<chat_display, status>>
    /\ UNCHANGED <<conversation_history, privacy_mode, should_stop, is_listening,
                   audio_queue, voice_active, tasks, listeners, producers, pending,
                   privacy_shown, chat_history, disk, last, log, ops, twin>>

NextOptimi ==
    \/ \E text \in TextInputs : on_send_message(text)
    \/ \E i \in 1..Len(tasks), now \in Clock : process_user_query(i, now)
    \/ \E i \in 1..Len(tasks), outcome \in Outcomes : user_query_reply(i, outcome)
    \/ run_scheduled

SpecOptimi == Init /\ [][NextOptimi]_vars

-----------------------------------------------------------------------------
(* Properties *)

\* the triggers that are substrings of the command the last operation routed
Candidates == {i \in 1..Len(commands) : Contains(commands[i].cmd, last.command)}

\* the last operation handed a non-empty command to the command table
RoutedCommand == last.op \in {"text", "voice"} /\ last.routed /\ last.command # ""

\* the last operation handed the router an empty command
EmptyCommand == last.op \in {"text", "voice"} /\ last.routed /\ last.command = ""

\* C1: the buffer never holds more than max_context_length messages, and it
\* holds exactly the last max_context_length messages appended since it was
\* last cleared, in the order they were appended (the oldest are evicted first)
C1_BoundedBuffer ==
    /\ Len(conversation_history) <= max_context_length
    /\ conversation_history = LastN(log, max_context_length)

\* C1 witness: more messages were appended than the buffer holds, by the
\* conversation path
C1_Evicted ==
    /\ Len(log) > max_context_length
    /\ last.op \in {"text", "voice"}
    /\ last.cont = "conv"
    /\ last.done

\* C2: for a non-empty command, on the voice route and on the text route (where
\* the command is the lower-cased input), the handler run is that of the first
\* table entry, in insertion order, whose trigger is a substring of the command;
\* the loop stops there, and when no trigger matches no handler is run and every
\* entry was tested
C2_FirstMatchWins ==
    RoutedCommand =>
        /\ last.op = "text" => last.command = lower(last.input)
        /\ \A found \in {Candidates} :
              IF found = {}
              THEN last.trig = "" /\ last.func = "" /\ last.checked = Len(commands)
              ELSE \E i \in found :
                       /\ \A j \in found : i <= j
                       /\ last.trig = commands[i].cmd
                       /\ last.func = commands[i].func
                       /\ last.checked = i

\* C2 witness: two triggers match the typed text and the later one is longer
C2_LaterLongerMatch ==
    /\ RoutedCommand
    /\ last.op = "text"
    /\ \E i, j \in Candidates :
          /\ i < j
          /\ last.trig = commands[i].cmd
          /\ Len(commands[j].cmd) > Len(commands[i].cmd)

\* C3: the command remainder passed to the router is the lower-cased transcript
\* with only the first occurrence of the first matching wake pattern removed,
\* then whitespace-trimmed
C3_FirstOccurrenceOnly ==
    (last.op = "voice" /\ last.routed) =>
        last.command =
            strip(str_replace_first(lower(last.input), first_pattern(lower(last.input))))

\* what an operation gave back to the user: the text spoken on the voice route,
\* the returned reply on the text route
Yielded ==
    IF last.op = "voice"
    THEN [i \in 1..Len(last.speaks) |-> last.speaks[i].text]
    ELSE <<last.reply>>

\* an operation that consulted neither the command table nor the LLM, and left
\* the conversation buffer as it found it
Untouched ==
    /\ last.checked = 0
    /\ last.trig = ""
    /\ last.queries = 0
    /\ last.requests = 0
    /\ conversation_history = last.before

C5_SpeakGated ==
    /\ \A i \in 1..Len(last.speaks) :
            last.speaks[i].engine = ~last.speaks[i].privacy
    /\ last.speaks # <<>> => last.speaks[Len(last.speaks)].privacy = privacy_mode

\* C5 witness: speak was called with privacy on, and nothing reached the engine
C5_SpokeInPrivacy ==
    /\ privacy_mode
    /\ last.op = "voice"
    /\ last.speaks # <<>>
    /\ \A i \in 1..Len(last.speaks) : ~last.speaks[i].engine

\* C6: two runs of process_text_input from the same buffer, with the same input
\* and the same inference outcome, that differ only in privacy_mode return the
\* same reply and end with the same conversation buffer
C6_PrivacyNonInterference ==
    /\ twin.S.privacy # privacy_mode
    /\ twin.S.history = conversation_history
    /\ last.op = "text" => (twin.tr.done /\ twin.tr.reply = last.reply)

\* C6 witness: an LLM-backed reply was computed in both runs, and was spoken in
\* one run only
C6_SpokenInOneRunOnly ==
    /\ last.op = "text"
    /\ last.cont = "conv"
    /\ last.done
    /\ twin.tr.done
    /\ last.reply # ""
    /\ twin.tr.speaks # last.speaks

\* the text query_llm returns for each outcome of the request
FixedReply(outcome) ==
    CASE outcome = "conn" ->
            "I'm having trouble connecting to my language model. Is Ollama running?"
      [] outcome = "status" ->
            "I'm having trouble connecting to my brain right now."
      [] outcome = "nofield" ->
            "I'm sorry, I couldn't process that request."
      [] OTHER ->
            "I encountered an unexpected error. Please try again."

\* C7: no exception leaves query_llm: a connection failure or timeout gives the
\* apology naming Ollama, a non-200 status the "trouble connecting to my brain"
\* string, any other failure the generic apology; the caller goes on, and in a
\* conversation the returned text is recorded as the assistant turn (and is the
\* reply on the text route)
C7_QueryNeverRaises ==
    /\ ~last.raised
    /\ (last.op \in {"text", "voice"} /\ last.queries > 0 /\ last.done) =>
          /\ last.outcome # "ok" => last.answer = FixedReply(last.outcome)
          /\ last.cont = "conv" =>
                /\ conversation_history # <<>>
                /\ conversation_history[Len(conversation_history)]
                        = Message("assistant", last.answer)
                /\ last.op = "text" => last.reply = last.answer

\* C7 witness: the request failed with an error that is no RequestException
\* during a conversation on the voice route
C7_UnexpectedFailure ==
    /\ last.op = "voice"
    /\ last.cont = "conv"
    /\ last.outcome = "other"
    /\ last.done

\* the file the last load or save operation named
Picked == CHOOSE f \in {disk} \cup ExternalFiles : f.name = last.input

\* C8: when save_conversation has written the session file, load_conversation
\* of that file returns True and leaves the buffer with the ordered sequence of
\* messages the buffer held when it was saved
C8_RoundTrip ==
    /\ (last.op = "save" /\ last.ok) =>
            /\ disk.exists
            /\ disk.source = conversation_history
            /\ json_load(disk.tokens)
                    = [ok |-> TRUE, val |-> JArr(conversation_history)]
    /\ (last.op = "load" /\ last.input = SessionPath /\ disk.exists) =>
            /\ last.ok
            /\ conversation_history = disk.source

\* C8 witness: a full buffer, with a message that needs escaping, was saved and
\* loaded back
C8_FullBufferLoaded ==
    /\ last.op = "load"
    /\ last.input = SessionPath
    /\ disk.exists
    /\ Len(conversation_history) = max_context_length
    /\ \E i \in 1..Len(conversation_history) :
            /\ Subscriptable(conversation_history[i])
            /\ Contains("\"", GetKey(conversation_history[i], "content").s)

\* C9: whenever load_conversation returns False the conversation buffer is what
\* it was before the call
C9_FailedLoadKeepsBuffer ==
    (last.op = "load" /\ ~last.ok) => conversation_history = last.before

\* an array of objects that each have the role key and the content key
WellShaped(v) ==
    /\ v.k = "arr"
    /\ \A i \in 1..Len(Elems(v)) :
          /\ Elems(v)[i].k = "obj"
          /\ HasKey(Elems(v)[i], "role")
          /\ HasKey(Elems(v)[i], "content")

\* C10: loading a file whose parsed value is not an array of objects that each
\* have the role and content keys is reported as a failure and installs nothing
C10_LoadValidatesShape ==
    (/\ last.op = "load"
     /\ Picked.exists
     /\ Picked.readable
     /\ json_load(Picked.tokens).ok
     /\ ~WellShaped(json_load(Picked.tokens).val)) =>
        /\ ~last.ok
        /\ conversation_history = last.before

\* C11: when process_text_input matches a time trigger, the value it returns
\* is the time-formatted string tell_time produced
C11_ReturnsHandlerResult ==
    (last.op = "text" /\ last.done /\ last.func = "tell_time") =>
        \E now \in Clock : Contains(now, last.reply)

\* C12: an utterance that matches a trigger never enters the conversation path,
\* on either route: the operation makes no conversation query, the only query
\* it can make is tell_story's, with the story prompt and not the utterance,
\* and no step of it appends anything but the text route's user turn
C12_MatchedNeverConversed ==
    [][(last'.op \in {"text", "voice"} /\ last'.trig # "") =>
            /\ last'.cont # "conv"
            /\ last'.queries > 0 =>
                    /\ last'.queries = 1
                    /\ last'.func = "tell_story"
                    /\ last'.prompt = StoryPrompt
                    /\ last'.prompt \notin {last'.input, last'.command}
            /\ \/ log' = log
               \/ /\ last'.op = "text"
                  /\ log' = Append(log, Message("user", last'.input))]_vars

\* C12 witness: a typed utterance matched tell_story, whose query was answered
C12_StoryTold ==
    /\ last.op = "text"
    /\ last.func = "tell_story"
    /\ last.queries = 1
    /\ last.done

\* C13: whenever should_stop is set while a listen loop is running, the loop
\* eventually exits and is_listening becomes false
C13_StopEventuallyExits ==
    (should_stop /\ listeners # <<>>) ~> ~is_listening

\* C14: toggle_privacy inverts privacy_mode and returns the new state to its
\* caller
C14_ReturnsNewState ==
    (last.op = "toggle_privacy" \/ last.func = "toggle_privacy") =>
        /\ privacy_mode = ~last.privacy0
        /\ last.returned = IF privacy_mode THEN "True" ELSE "False"

\* the final line query_llm adds for a prompt that is not in the buffer
FinalLine(prompt) == "User: " \o prompt \o "\n" \o name \o ": "

EndsWith(s, suffix) ==
    /\ Len(s) >= Len(suffix)
    /\ SubSeq(s, Len(s) - Len(suffix) + 1, Len(s)) = suffix

\* the user turn with this prompt is the most recent buffer entry
IsMostRecent(history, prompt) ==
    /\ history # <<>>
    /\ history[Len(history)] = Message("user", prompt)

\* the last operation called query_llm on a buffer it could render
Queried ==
    /\ last.op \in {"text", "voice"}
    /\ last.queries > 0
    /\ \A i \in 1..Len(last.seen) : Subscriptable(last.seen[i])

\* C15: the context query_llm builds ends with the final line for the new user
\* turn exactly when that turn is not the most recent buffer entry
C15_FinalLineUnlessMostRecent ==
    Queried =>
        (EndsWith(last.context, FinalLine(last.prompt))
            <=> ~IsMostRecent(last.seen, last.prompt))

\* the line of the context that stands for one buffered message
Line(message) ==
    (IF GetKey(message, "role") = JStr("user") THEN "User: " ELSE name \o ": ")
        \o format_value(GetKey(message, "content")) \o "\n"

\* where the line of each buffered message ends when the lines are written one
\* after the other (0 for no message)
LineEnd(seen) ==
    LET end[i \in 0..Len(seen)] ==
            IF i = 0 THEN 0 ELSE end[i - 1] + Len(Line(seen[i]))
    IN  end

\* C16: on the conversation path the user turn is in the buffer when query_llm
\* builds the context, and the context is the rendered buffer with no final
\* line added: counted at the places where a line can start, the new turn
\* appears once for each time it is in the buffer
C16_TurnNotDoubled ==
    (Queried /\ last.cont = "conv") =>
        /\ IsMostRecent(last.seen, last.prompt)
        /\ last.context = render(last.seen)
        /\ ~EndsWith(last.context, FinalLine(last.prompt))
        /\ LET end == LineEnd(last.seen)
           IN  Cardinality({i \in 0..Len(last.seen) :
                                StartsAt(last.context,
                                         "User: " \o last.prompt \o "\n", end[i] + 1)})
                 = Cardinality({j \in 1..Len(last.seen) :
                                last.seen[j] = Message("user", last.prompt)})

\* C16 witness: a typed message was rendered from a full buffer
C16_RenderedFromFullBuffer ==
    /\ Queried
    /\ last.op = "text"
    /\ last.cont = "conv"
    /\ Len(last.seen) = max_context_length
    /\ last.done

\* the buffer changed between the query and the assistant turn only by that turn
NothingBetween ==
    /\ conversation_history # <<>>
    /\ Len(conversation_history) =
          IF Len(last.seen) < max_context_length THEN Len(last.seen) + 1
          ELSE max_context_length
    /\ SubSeq(conversation_history, 1, Len(conversation_history) - 1)
          = LastN(last.seen, Len(conversation_history) - 1)

\* C17: on the no-match path the user turn is appended, then one query is made,
\* then the assistant turn with the returned reply is appended; when nothing
\* else was appended in between, the last two buffer entries are that user
\* turn and that assistant turn
C17_ConversationOrder ==
    (last.op \in {"text", "voice"} /\ last.cont = "conv") =>
        /\ last.queries = 1
        /\ IsMostRecent(last.seen, last.prompt)
        /\ ~last.done => (last.answer = "" /\ last.requests = 0)
        /\ last.done =>
              /\ last.requests <= 1
              /\ conversation_history # <<>>
              /\ conversation_history[Len(conversation_history)]
                    = Message("assistant", last.answer)
              /\ NothingBetween =>
                    /\ Len(conversation_history) >= 2
                    /\ SubSeq(conversation_history,
                              Len(conversation_history) - 1,
                              Len(conversation_history))
                         = <<Message("user", last.prompt),
                             Message("assistant", last.answer)>>

\* C17 witness: a spoken utterance was answered with nothing appended in between
C17_ExchangeRecorded ==
    /\ last.op = "voice"
    /\ last.cont = "conv"
    /\ last.done
    /\ NothingBetween
    /\ Len(conversation_history) >= 2

\* C18: at most one capture producer and at most one listen loop run on the
\* engine at any time
C18_OneProducerOneConsumer ==
    /\ producers <= 1
    /\ Len(listeners) <= 1

\* operations waiting for the reply of the language model
InFlight ==
    Len(tasks) + Cardinality({i \in 1..Len(listeners) : listeners[i].pc = "query"})

\* C19: at no time are two operations (typed messages in GUI threads, spoken
\* utterances in the listen loop) in flight against the conversation buffer
C19_QueriesSerialized == InFlight <= 1

\* C20: when no listen loop and no capture producer is running, the audio queue
\* is empty, so a later session finds nothing captured by an earlier one
C20_QueueDrainedOnStop ==
    (listeners = <<>> /\ producers = 0) => audio_queue = <<>>

\* C21: after a stop request the capture producer of the running session
\* eventually terminates, also when a new session is started soon afterwards
C21_ProducerEventuallyExits == (should_stop /\ producers = 1) ~> (producers = 0)

\* C22: in every reachable state the privacy state the application shows
\* equals the engine's privacy_mode, however privacy was toggled
C22_SinglePrivacyState == privacy_shown = privacy_mode

\* C23: toggle_privacy changes only the privacy flag: whichever way it is
\* called, the step that runs it leaves should_stop, is_listening and the audio
\* queue as they were (the listen loop's own get apart), and the buffer as the
\* caller left it (process_text_input has appended the user turn before)
C23_TogglePrivacyFrame ==
    [][(last' # last /\ (last'.op = "toggle_privacy" \/ last'.func = "toggle_privacy")) =>
            /\ privacy_mode' = ~privacy_mode
            /\ should_stop' = should_stop
            /\ is_listening' = is_listening
            /\ audio_queue' = IF last'.op = "voice" THEN Tail(audio_queue)
                              ELSE audio_queue
            /\ conversation_history' =
                    IF last'.op = "text"
                    THEN deque_append(conversation_history,
                                      Message("user", last'.input))
                    ELSE conversation_history]_vars

\* C23 witness: the privacy button was pressed with turns in the buffer and a
\* session listening
C23_ToggledWithHistory ==
    /\ last.op = "toggle_privacy"
    /\ privacy_mode
    /\ conversation_history # <<>>
    /\ is_listening

\* the context holds the lines of the messages in buffer order, one after the
\* other from its first character, followed by the final line or by nothing
RenderedInOrder(context, seen, prompt) ==
    LET end == LineEnd(seen)
    IN  /\ \A i \in 1..Len(seen) : StartsAt(context, Line(seen[i]), end[i - 1] + 1)
        /\ SubSeq(context, end[Len(seen)] + 1, Len(context))
             \in {"", FinalLine(prompt)}

\* C24: query_llm is a pure read of the buffer: the context it builds holds one
\* line per buffered message, in insertion order, labelled "User: " or with the
\* assistant's name; and for every outcome of the request the step in which it
\* returns changes the buffer only by what its caller appends afterwards
C24_RenderingIsPureRead ==
    [][/\ Queried' => RenderedInOrder(last'.context, last'.seen, last'.prompt)
       /\ (last' # last /\ last'.queries > 0 /\ last'.done) =>
            conversation_history' =
                IF last'.cont = "conv" /\ ~last'.raised
                THEN deque_append(conversation_history,
                                  Message("assistant", last'.answer))
                ELSE conversation_history]_vars

\* C24 witness: a story was asked for with a user and an assistant turn in the
\* buffer, and the buffer is as query_llm read it
C24_StoryFromMixedBuffer ==
    /\ Queried
    /\ last.cont = "story"
    /\ last.done
    /\ Len(last.seen) = 2
    /\ \E i \in 1..2 : GetKey(last.seen[i], "role") = JStr("assistant")
    /\ conversation_history = last.seen

\* C25: a load_conversation that returns True for a file holding a list of N
\* messages leaves the buffer with exactly those messages in file order, or
\* with the most recent max_context_length of them when N exceeds the capacity;
\* nothing of the previous contents remains and the length bound holds
C25_LoadReplacesAndTruncates ==
    (last.op = "load" /\ last.ok /\ json_load(Picked.tokens).val.k = "arr") =>
        LET loaded == Elems(json_load(Picked.tokens).val)
            N == Len(loaded)
            kept == IF N > max_context_length THEN max_context_length ELSE N
        IN  /\ Len(conversation_history) = kept
            /\ Len(conversation_history) <= max_context_length
            /\ \A i \in 1..kept :
                    conversation_history[i] = loaded[N - kept + i]

\* C25 witness: a file with more messages than the capacity was loaded over a
\* buffer that held other messages
C25_LongFileLoaded ==
    /\ last.op = "load"
    /\ last.ok
    /\ json_load(Picked.tokens).val.k = "arr"
    /\ Len(Elems(json_load(Picked.tokens).val)) > max_context_length
    /\ last.before # <<>>
    /\ \A i \in 1..Len(last.before) :
            \A j \in 1..Len(conversation_history) :
                last.before[i] # conversation_history[j]

\* C26: an utterance that matches a built-in trigger, typed or spoken, leaves
\* the conversation buffer as it was (no handler without a query touches it)
C26_MatchedLeavesBuffer ==
    (/\ last.op \in {"text", "voice"}
     /\ last.trig # ""
     /\ last.queries = 0
     /\ last.done) => conversation_history = last.before

\* an audio unit with no transcript, or with a transcript that holds no wake
\* pattern
Discarded(audio) ==
    \/ audio.rec = "miss"
    \/ ~\E i \in 1..Len(wake_patterns) : Contains(wake_patterns[i], lower(audio.text))

\* C27: the listen loop's step for an audio unit that yields no transcript or
\* whose transcript holds no wake pattern does not invoke the router, speaks
\* nothing, sends no query, and leaves the conversation buffer, the privacy
\* flag and should_stop unchanged
C27_DiscardedSilently ==
    [][(/\ audio_queue # <<>>
        /\ audio_queue' = Tail(audio_queue)
        /\ Discarded(Head(audio_queue))) =>
            /\ last'.op = "voice"
            /\ last'.input = Head(audio_queue).text
            /\ ~last'.routed
            /\ last'.speaks = <<>>
            /\ last'.queries = 0
            /\ last'.done
            /\ UNCHANGED <<conversation_history, privacy_mode, should_stop, log,
                           listeners, pending>>]_vars

\* C27 witness: an utterance without the wake word was heard and dropped while
\* the buffer held a turn
C27_HeardWithoutWakeWord ==
    /\ last.op = "voice"
    /\ last.input = "good morning"
    /\ ~last.routed
    /\ last.done
    /\ conversation_history # <<>>

\* C28: only should_stop ends a capture producer: a step in which a producer
\* ends starts with should_stop set, and a step in which a capture failure is
\* printed leaves every producer running, the flag clear and the queue as it was
C28_OnlyStopEndsProducer ==
    [][/\ producers' < producers => should_stop
       /\ (last' # last /\ last'.op = "capture") =>
            /\ last'.printed # ""
            /\ producers' = producers
            /\ ~should_stop'
            /\ audio_queue' = audio_queue]_vars

\* C28 witness: a capture failure was printed and the producer has captured an
\* utterance since
C28_CapturedAfterFailure ==
    /\ last.op = "capture"
    /\ last.printed # ""
    /\ producers > 0
    /\ audio_queue # <<>>

\* an audio unit whose transcript holds a wake pattern and a command in which
\* the first trigger of the table to occur is a stop trigger
StopUtterance(audio) ==
    /\ ~Discarded(audio)
    /\ LET command == extract_command(lower(audio.text))
           hits == {i \in 1..Len(commands) : Contains(commands[i].cmd, command)}
       IN  /\ command # ""
           /\ hits # {}
           /\ commands[CHOOSE i \in hits : \A j \in hits : i <= j].func
                 = "stop_listening"

\* the listen loop's step that dequeues an audio unit
Dequeued == audio_queue # <<>> /\ audio_queue' = Tail(audio_queue)

Querying == {i \in 1..Len(listeners) : listeners[i].pc = "query"}

\* C30: a stop request does not abort an outstanding query of the listen loop:
\* a loop stops waiting only in the step in which its query returns, that step
\* appends the assistant turn with the reply also when should_stop is set, a
\* loop exits only from its loop test with the flag set, and a query that is
\* outstanding when the flag is set does return
C30_StopLetsQueryFinish ==
    /\ [][/\ Cardinality(Querying') < Cardinality(Querying) =>
                /\ last' # last
                /\ last'.op = "voice"
                /\ last'.queries = 1
                /\ last'.requests <= 1
                /\ last'.done
                /\ should_stop' = should_stop
                /\ Len(listeners') = Len(listeners)
                /\ conversation_history' =
                        IF last'.cont = "conv"
                        THEN deque_append(conversation_history,
                                          Message("assistant", last'.answer))
                        ELSE conversation_history
          /\ Len(listeners') < Len(listeners) =>
                /\ should_stop
                /\ \E i \in 1..Len(listeners) :
                        /\ listeners[i].pc = "idle"
                        /\ listeners' = Remove(listeners, i)]_vars
    /\ (should_stop /\ Querying # {}) ~> (Querying = {})

\* C30 witness: the voice button was switched off while the loop waited for the
\* reply; the reply has been recorded and the loop has yet to exit
C30_RepliedAfterStop ==
    /\ last.op = "voice"
    /\ last.cont = "conv"
    /\ last.done
    /\ should_stop
    /\ ~voice_active
    /\ listeners # <<>>
    /\ conversation_history # <<>>
    /\ conversation_history[Len(conversation_history)]
          = Message("assistant", last.answer)

-----------------------------------------------------------------------------
(* C31 *)

\* C31: a call of query_llm sends at most one request whatever the outcome
\* (none when building the context fails, one otherwise, never a second one
\* after a failure), and an operation on the text or the voice route calls
\* query_llm at most once
C31_OneRequestPerQuery ==
    /\ last.op \in {"text", "voice"} =>
          /\ last.queries <= 1
          /\ last.requests <= last.queries
          /\ (last.done /\ last.queries = 1) =>
                last.requests = IF last.outcome = "context" THEN 0 ELSE 1
    /\ \A i \in 1..Len(tasks) :
          tasks[i].tr.queries = 1 /\ tasks[i].tr.requests = 0
    /\ \A i \in 1..Len(listeners) :
          listeners[i].pc = "query" =>
              /\ listeners[i].frame.tr.queries = 1
              /\ listeners[i].frame.tr.requests = 0

\* C31 witness: a routed utterance whose one request met a connection failure
\* and was answered with the fallback text
C31_FailedOnceNoRetry ==
    /\ last.op = "voice"
    /\ last.routed
    /\ last.done
    /\ last.queries = 1
    /\ last.requests = 1
    /\ last.outcome = "conn"
    /\ last.answer = ReplyUnavailable

-----------------------------------------------------------------------------
(* C32 *)

\* C32: the audio queue has a fixed capacity and never holds more: whenever
\* audio units are queued, the queue has a positive capacity and the number
\* of queued units is within it (a full queue makes the producer wait)
C32_QueueBounded ==
    audio_queue # <<>> =>
        /\ 0 < maxsize
        /\ Len(audio_queue) <= maxsize

-----------------------------------------------------------------------------
(* C33 *)

\* C33: audio units reach _process_audio in capture order and once each: the
\* queue changes only by a capture adding a unit at its end or by the consumer
\* taking the unit at its front, the unit taken is the one _process_audio is
\* applied to and it is gone from the queue; a voice operation starts only with
\* such a take (its other steps are the replies of outstanding queries)
C33_CaptureOrder ==
    [][/\ audio_queue' # audio_queue =>
            \/ \E audio \in AudioUnits : audio_queue' = Append(audio_queue, audio)
            \/ /\ Dequeued
               /\ last'.op = "voice"
               /\ last'.input = Head(audio_queue).text
               /\ last'.before = conversation_history
               /\ last'.waiting = Tail(audio_queue)
       /\ (last' # last /\ last'.op = "voice") =>
            \/ Dequeued
            \/ Cardinality(Querying') < Cardinality(Querying)]_vars

\* C33 witness: two different units were queued, the one captured first has
\* been processed and the other still waits
C33_FirstOfTwoProcessed ==
    /\ last.op = "voice"
    /\ last.done
    /\ last.routed
    /\ last.waiting # <<>>
    /\ audio_queue = last.waiting
    /\ audio_queue[1].text # last.input

-----------------------------------------------------------------------------
(* C34 *)

\* C34: a message thread never writes what the window shows or keeps: in
\* every step of a message thread (a thread advances or ends, none is
\* created) chat_history, chat_display and status stay as they are, so a
\* result reaches them only when the event loop runs a scheduled callback
C34_ResultsOnlyByCallback ==
    [][(tasks' # tasks /\ Len(tasks') <= Len(tasks)) =>
            UNCHANGED <<chat_history, chat_display, status>>]_vars

-----------------------------------------------------------------------------
(* C35 *)

\* C35: when the voice thread ends, after a stop command or after an error in
\* listen, voice mode ends up off and the handling starts no listening thread:
\* an ending thread asks the event loop for toggle_voice only while voice mode
\* is on, and once; and every toggle_voice the event loop runs for an ended
\* thread leaves voice_active false and adds no listen loop and no producer
C35_VoiceEndsUpOff ==
    [][/\ pending' > pending =>
            /\ voice_active
            /\ pending' = pending + 1
       /\ pending' < pending =>
            /\ ~voice_active'
            /\ Len(listeners') <= Len(listeners)
            /\ producers' <= producers]_vars

-----------------------------------------------------------------------------
(* C36 *)

\* C36: a session does not stay marked as listening without a producer: it
\* happens again and again that is_listening is clear or a capture thread is
\* running, so is_listening never remains set for ever with no producer
C36_DegradesToTextOnly == []<>(~is_listening \/ producers > 0)


====
